---------------------------- MODULE Spec2Model ----------------------------
(***************************************************************************)
(* rustrix (src/src/main.rs): the digital-rain engine and its main loop.   *)
(*                                                                         *)
(* Units.  Instants and durations are whole milliseconds.  A Drop's pos is *)
(* a whole number of milli-rows (1000 = one terminal row), so that         *)
(* pos += speed * delta_seconds is the exact integer pos + speed * ms.     *)
(* density is carried in tenths (7 = 0.7).  A colour is <<r, g, b>>; an    *)
(* Option<RgbColor> is <<>> (None) or <<c>> (Some(c)).  Grids are          *)
(* functions over 0-based rows and columns, as the Vec indices are.        *)
(***************************************************************************)
EXTENDS Integers, Sequences, FiniteSets, TLC

VARIABLES
    pc,               \* where main is: "poll", "select", "cleanup", "returned", "panicked"
    width, height,    \* main's tracked terminal size (u16)
    density, speed,   \* args.density (tenths), args.speed (rows per second)
    drops,            \* engine.drops
    current_screen,   \* main's current_screen
    previous_screen,  \* main's previous_screen
    last_frame_time,  \* main's last_frame_time
    now,              \* the monotonic clock (Instant::now())
    terminal,         \* what the terminal shows: its size and its cells
    out,              \* cell writes flushed to stdout in this loop iteration
    redraw_due,       \* a resize happened and no render_changes pass ran since
    event,            \* what reader.next() resolved to in this loop iteration
    frames,           \* how many frame ticks ran to completion
    cleanup_runs      \* how many times the cleanup closure ran

vars == <<pc, width, height, density, speed, drops, current_screen,
          previous_screen, last_frame_time, now, terminal, out, redraw_due,
          event, frames, cleanup_runs>>

(***************************************************************************)
(* Bounds of the model.                                                    *)
(***************************************************************************)
MaxWidth  == 2        \* size() reports widths 0..MaxWidth
MaxHeight == 2        \* size() reports heights 0..MaxHeight
MaxNow    == 60       \* the clock stops advancing once it reaches MaxNow

(***************************************************************************)
(* Program constants.                                                      *)
(***************************************************************************)
FRAME_DURATION == 33      \* Duration::from_millis(33)
TRAIL_STEPS    == 8       \* calculate_trail_colors(.., 8)
MIN_LENGTH     == 8       \* rng.gen_range(8..20)

Max(a, b) == IF a >= b THEN a ELSE b
Min(a, b) == IF a <= b THEN a ELSE b

(* f64::round of the non-negative rational n / d: half away from zero.     *)
RoundDiv(n, d) == (2 * n + d) \div (2 * d)

(* f64::round of p / 1000 for any integer p (half away from zero).         *)
RoundMilli(p) == IF p >= 0 THEN RoundDiv(p, 1000) ELSE 0 - RoundDiv(0 - p, 1000)

None == <<>>
Some(c) == <<c>>
unwrap_or(opt, dflt) == IF opt = None THEN dflt ELSE opt[1]

(***************************************************************************)
(* RgbColor                                                                *)
(***************************************************************************)
(* blend with factor num / den, already inside [0, 1].                     *)
blend(start, target, num, den) ==
    [k \in 1..3 |-> RoundDiv(start[k] * (den - num) + target[k] * num, den)]

(* brighten by tenths / 10: the product is truncated and saturates at 255. *)
brighten(c, tenths) ==
    [k \in 1..3 |-> Min((c[k] * tenths) \div 10, 255)]

base_color     == <<0, 255, 0>>       \* ColorTheme::Green.to_rgb()
background_rgb == <<0, 0, 0>>         \* the fallback when detection fails

calculate_trail_colors(base, background, steps) ==
    [i \in 0..(steps - 1) |->
        IF i = 0 THEN brighten(base, 14)
        ELSE blend(base, background, i * i, (steps - 1) * (steps - 1))]

trail_colors == calculate_trail_colors(base_color, background_rgb, TRAIL_STEPS)

(***************************************************************************)
(* Screen                                                                  *)
(***************************************************************************)
Screen_new(h, w) ==
    [chars  |-> [r \in 0..(h - 1) |-> [c \in 0..(w - 1) |-> " "]],
     colors |-> [r \in 0..(h - 1) |-> [c \in 0..(w - 1) |-> None]],
     height |-> h,
     width  |-> w]

Screen_clear(s) ==
    [s EXCEPT !.chars  = [r \in DOMAIN s.chars  |-> [c \in DOMAIN s.chars[r]  |-> " "]],
              !.colors = [r \in DOMAIN s.colors |-> [c \in DOMAIN s.colors[r] |-> None]]]

(* Mutant of Screen_resize: the two dimensions are taken in the other      *)
(* order.                                                                  *)
Screen_resize_transposed(s, new_height, new_width) ==
    Screen_clear(
        [chars  |-> [r \in 0..(new_width - 1) |-> [c \in 0..(new_height - 1) |-> " "]],
         colors |-> [r \in 0..(new_width - 1) |-> [c \in 0..(new_height - 1) |-> None]],
         height |-> new_width,
         width  |-> new_height])

Screen_resize(s, new_height, new_width) ==
    Screen_clear(
        [chars  |-> [r \in 0..(new_height - 1) |-> [c \in 0..(new_width - 1) |-> " "]],
         colors |-> [r \in 0..(new_height - 1) |-> [c \in 0..(new_width - 1) |-> None]],
         height |-> new_height,
         width  |-> new_width])

(* Mutant of cell_changed: the cell's colour is compared with the resolved *)
(* colour of previous, so an unset colour always counts as a change.       *)
cell_changed_resolved(self, previous, row, col) ==
    \/ row >= previous.height
    \/ col >= previous.width
    \/ self.chars[row][col] # previous.chars[row][col]
    \/ self.colors[row][col] # Some(unwrap_or(previous.colors[row][col], background_rgb))

(* The test of render_changes on one cell (lines 209-212).  The indexing   *)
(* of previous is guarded by the two bounds tests, as || short-circuits.   *)
cell_changed(self, previous, row, col) ==
    \/ row >= previous.height
    \/ col >= previous.width
    \/ self.chars[row][col] # previous.chars[row][col]
    \/ self.colors[row][col] # previous.colors[row][col]

(* The row-major scan of render_changes from cell number idx on.           *)
(* current_color is the colour most recently set in this pass; acc is the  *)
(* queue so far.  One entry per written cell: MoveTo(col, row), then       *)
(* SetForegroundColor(set_color[1]) when set_color is Some, then Print(ch).*)
RECURSIVE render_scan(_, _, _, _, _)
render_scan(self, previous, idx, current_color, acc) ==
    IF idx >= self.height * self.width THEN acc
    ELSE LET row == idx \div self.width
             col == idx % self.width
         IN  IF cell_changed(self, previous, row, col)
             THEN LET cell_color == unwrap_or(self.colors[row][col], background_rgb)
                      set == Some(cell_color) # current_color
                  IN  render_scan(self, previous, idx + 1, Some(cell_color),
                          Append(acc, [row |-> row, col |-> col,
                                       set_color |-> IF set THEN Some(cell_color) ELSE None,
                                       ch |-> self.chars[row][col]]))
             ELSE render_scan(self, previous, idx + 1, current_color, acc)

render_changes(self, previous) == render_scan(self, previous, 0, None, <<>>)


(***************************************************************************)
(* Drop                                                                    *)
(***************************************************************************)
char_set == <<"0", "1">>                    \* CharSet::Binary

(* The draws new_random is sampled at, as <<a, b, l, k>>:                  *)
(*   a = rng.gen_range(0.0..h) and b = rng.gen_range(0.0..h / 2), in       *)
(*   thousandths, l = rng.gen_range(8..20), k = the index char_set.choose  *)
(*   picks.  One sample starts at pos 0.4, the other at pos -0.1; both lie *)
(*   inside the ranges for every h >= 1.  The two float ranges are empty   *)
(*   when h = 0, and gen_range panics on an empty range.                   *)
DrawSamples(h) ==
    IF h <= 0 THEN {}
    ELSE {<<400, 0, MIN_LENGTH, 1>>, <<0, 100, MIN_LENGTH, 2>>}

(* Drop::new_random: every Drop it can return.  No Drop at all stands for  *)
(* the panic of gen_range(0.0..0.0), which happens when screen_height = 0. *)
new_random(screen_height) ==
    {[pos |-> s[1] - s[2], length |-> s[3], char |-> char_set[s[4]], active |-> TRUE] :
        s \in DrawSamples(screen_height)}

(* 0.005 * density and (0.15 - density * 0.05).max(0.01), in 1/10000.      *)
activation_chance(dens) == 5 * dens
pause_chance(dens) == Max(1500 - 50 * dens, 100)

(* Mutant of update: the trail length is left out of the bottom test.      *)
update_ignoring_length(d, screen_height, dens, fall_distance) ==
    IF ~d.active
    THEN (IF activation_chance(dens) > 0 THEN new_random(screen_height) ELSE {})
         \cup (IF activation_chance(dens) < 10000 THEN {d} ELSE {})
    ELSE LET moved == [d EXCEPT !.pos = @ + fall_distance]
         IN  IF moved.pos > screen_height * 1000
             THEN (IF pause_chance(dens) > 0
                   THEN {[moved EXCEPT !.active = FALSE]} ELSE {})
                  \cup (IF pause_chance(dens) < 10000
                        THEN new_random(screen_height) ELSE {})
             ELSE {moved}

(* Mutant of update: a paused Drop keeps falling.                          *)
update_inactive_drifts(d, screen_height, dens, fall_distance) ==
    IF ~d.active
    THEN (IF activation_chance(dens) > 0 THEN new_random(screen_height) ELSE {})
         \cup (IF activation_chance(dens) < 10000
               THEN {[d EXCEPT !.pos = @ + fall_distance]} ELSE {})
    ELSE LET moved == [d EXCEPT !.pos = @ + fall_distance]
         IN  IF moved.pos - moved.length * 1000 > screen_height * 1000
             THEN (IF pause_chance(dens) > 0
                   THEN {[moved EXCEPT !.active = FALSE]} ELSE {})
                  \cup (IF pause_chance(dens) < 10000
                        THEN new_random(screen_height) ELSE {})
             ELSE {moved}

(* Mutant of update: a Drop that left the bottom just keeps falling.       *)
update_never_leaves(d, screen_height, dens, fall_distance) ==
    IF ~d.active
    THEN (IF activation_chance(dens) > 0 THEN new_random(screen_height) ELSE {})
         \cup (IF activation_chance(dens) < 10000 THEN {d} ELSE {})
    ELSE {[d EXCEPT !.pos = @ + fall_distance]}

(* Drop::update: every Drop the call can leave in place of d.  A draw      *)
(* gen_range(0.0..1.0) < chance can succeed iff chance > 0 and can fail    *)
(* iff chance < 1.                                                         *)
update(d, screen_height, dens, fall_distance) ==
    IF ~d.active
    THEN (IF activation_chance(dens) > 0 THEN new_random(screen_height) ELSE {})
         \cup (IF activation_chance(dens) < 10000 THEN {d} ELSE {})
    ELSE LET moved == [d EXCEPT !.pos = @ + fall_distance]
         IN  IF moved.pos - moved.length * 1000 > screen_height * 1000
             THEN (IF pause_chance(dens) > 0
                   THEN {[moved EXCEPT !.active = FALSE]} ELSE {})
                  \cup (IF pause_chance(dens) < 10000
                        THEN new_random(screen_height) ELSE {})
             ELSE {moved}

(* Whether the call can reach new_random with an empty range (a panic).    *)
update_panics(d, screen_height, dens, fall_distance) ==
    /\ new_random(screen_height) = {}
    /\ IF ~d.active
       THEN activation_chance(dens) > 0
       ELSE /\ d.pos + fall_distance - d.length * 1000 > screen_height * 1000
            /\ pause_chance(dens) < 10000

(* Drop::draw: the Screen after the Drop was drawn into column col.        *)
draw(d, screen, col) ==
    IF ~d.active THEN screen
    ELSE LET tail_pos == RoundMilli(d.pos - d.length * 1000)
             head_pos == RoundMilli(d.pos)
             Covered(row) == row >= tail_pos /\ row <= head_pos
                             /\ row < screen.height
                             /\ row \in DOMAIN screen.chars
                             /\ col \in DOMAIN screen.chars[row]
             dist(row) == head_pos - row
             color_index(row) ==
                 Min((dist(row) * TRAIL_STEPS) \div d.length, TRAIL_STEPS - 1)
             \* fade_factor > 0.95, i.e. dist / length > 19 / 20
             char_to_draw(row) ==
                 IF 20 * dist(row) > 19 * d.length THEN " " ELSE d.char
         IN  [screen EXCEPT
                !.chars = [r \in DOMAIN screen.chars |->
                             [c \in DOMAIN screen.chars[r] |->
                                IF c = col /\ Covered(r) THEN char_to_draw(r)
                                ELSE screen.chars[r][c]]],
                !.colors = [r \in DOMAIN screen.colors |->
                             [c \in DOMAIN screen.colors[r] |->
                                IF c = col /\ Covered(r)
                                THEN Some(trail_colors[color_index(r)])
                                ELSE screen.colors[r][c]]]]

(***************************************************************************)
(* MatrixEngine                                                            *)
(***************************************************************************)
(* Mutant of total_drops: the product is truncated instead of rounded.     *)
total_drops_truncating(w, dens) == Max(w * dens, w * 10) \div 10

(* (width as f64 * density).max(width as f64).round() as usize             *)
total_drops(w, dens) == RoundDiv(Max(w * dens, w * 10), 10)

(* All sequences of n Drops drawn by new_random(h).                        *)
fresh_drops(n, h) == [1..n -> new_random(h)]

create_drops(w, h, dens) == fresh_drops(total_drops(w, dens), h)

create_drops_panics(w, h, dens) ==
    total_drops(w, dens) > 0 /\ new_random(h) = {}

(* Mutant of resize_drops: shrinking drops the lowest-indexed Drops.       *)
resize_drops_front(ds, new_width, new_height, dens) ==
    LET new_total_drops == total_drops(new_width, dens)
    IN  IF new_total_drops > Len(ds)
        THEN {ds \o more : more \in fresh_drops(new_total_drops - Len(ds), new_height)}
        ELSE {SubSeq(ds, Len(ds) - new_total_drops + 1, Len(ds))}

(* MatrixEngine::resize_drops: every collection the call can leave.        *)
resize_drops(ds, new_width, new_height, dens) ==
    LET new_total_drops == total_drops(new_width, dens)
    IN  IF new_total_drops > Len(ds)
        THEN {ds \o more : more \in fresh_drops(new_total_drops - Len(ds), new_height)}
        ELSE {SubSeq(ds, 1, new_total_drops)}

resize_drops_panics(ds, new_width, new_height, dens) ==
    total_drops(new_width, dens) > Len(ds) /\ new_random(new_height) = {}

(* MatrixEngine::update_drops: every collection the loop over the Drops    *)
(* can leave, from index i on.                                             *)
RECURSIVE update_from(_, _, _, _, _)
update_from(ds, i, screen_height, dens, fall_distance) ==
    IF i > Len(ds) THEN {ds}
    ELSE UNION {update_from([ds EXCEPT ![i] = u], i + 1, screen_height, dens, fall_distance) :
                  u \in update(ds[i], screen_height, dens, fall_distance)}

update_drops(ds, screen_height, dens, fall_distance) ==
    update_from(ds, 1, screen_height, dens, fall_distance)

update_drops_panics(ds, screen_height, dens, fall_distance) ==
    \E i \in 1..Len(ds) : update_panics(ds[i], screen_height, dens, fall_distance)

(* MatrixEngine::render_drops: clear, then draw Drop number i (0-based)    *)
(* into column i % screen.width, in index order.                           *)
RECURSIVE draw_from(_, _, _)
draw_from(ds, i, screen) ==
    IF i > Len(ds) THEN screen
    ELSE draw_from(ds, i + 1, draw(ds[i], screen, (i - 1) % screen.width))

(* Mutant of render_drops: the Drops are drawn from the last to the first,  *)
(* so the lowest-indexed Drop of a column is drawn last.                   *)
RECURSIVE draw_down(_, _, _)
draw_down(ds, i, screen) ==
    IF i < 1 THEN screen
    ELSE draw_down(ds, i - 1, draw(ds[i], screen, (i - 1) % screen.width))

render_drops_first_wins(ds, screen) == draw_down(ds, Len(ds), Screen_clear(screen))

render_drops(ds, screen) == draw_from(ds, 1, Screen_clear(screen))

(* i % screen.width with screen.width = 0 divides by zero.                 *)
render_drops_panics(ds, screen) == Len(ds) > 0 /\ screen.width = 0

(***************************************************************************)
(* The terminal, as far as the program's output reaches it.                *)
(***************************************************************************)
blank_cell == [ch |-> " ", color |-> background_rgb]

(* The terminal after Clear(ClearType::All).                               *)
term_cleared(h, w) ==
    [height |-> h, width |-> w,
     cells |-> [r \in 0..(h - 1) |-> [c \in 0..(w - 1) |-> blank_cell]]]

(* The terminal after its window changed size: the program writes nothing  *)
(* on a resize, so what was shown stays where the new window still has the *)
(* cell, and a cell the window gained is blank.                            *)
term_resized(t, h, w) ==
    [height |-> h, width |-> w,
     cells |-> [r \in 0..(h - 1) |-> [c \in 0..(w - 1) |->
                  IF r < t.height /\ c < t.width THEN t.cells[r][c] ELSE blank_cell]]]

(* The terminal after the queued writes were flushed: each write moves the *)
(* cursor, sets the pen when it carries a colour, and prints with the pen. *)
RECURSIVE term_written(_, _, _, _)
term_written(t, writes, k, pen) ==
    IF k > Len(writes) THEN t
    ELSE LET wr == writes[k]
             p  == IF wr.set_color = None THEN pen ELSE wr.set_color[1]
         IN  term_written(
                 IF wr.row < t.height /\ wr.col < t.width
                 THEN [t EXCEPT !.cells[wr.row][wr.col] = [ch |-> wr.ch, color |-> p]]
                 ELSE t,
                 writes, k + 1, p)

(***************************************************************************)
(* Inputs of the program.                                                  *)
(***************************************************************************)
Sizes == (0..MaxWidth) \X (0..MaxHeight)        \* <<width, height>> of size()
Densities == {0, 7, 13}                         \* --density, in tenths
Speeds == {5, 270}                              \* --speed
TimeSteps == {FRAME_DURATION}                   \* how far the clock moves at once

(* What reader.next() can resolve to.                                      *)
NoEvent == [kind |-> "Pending", code |-> "", modifiers |-> {}]
Events ==
    {[kind |-> "Key", code |-> "c", modifiers |-> {"CONTROL"}],
     [kind |-> "Key", code |-> "c", modifiers |-> {}],
     [kind |-> "Key", code |-> "q", modifiers |-> {"CONTROL"}]}
    \cup {[kind |-> "Resize", code |-> "", modifiers |-> {}],
          [kind |-> "Err",    code |-> "", modifiers |-> {}],
          [kind |-> "None",   code |-> "", modifiers |-> {}]}

(* Mutant of break_cause: the CONTROL modifier is not tested.              *)
break_cause_any_c(ev) ==
    CASE ev.kind = "Key" -> IF ev.code = "c" THEN "ctrl_c" ELSE "none"
      [] ev.kind = "Err"  -> "stream_error"
      [] ev.kind = "None" -> "stream_end"
      [] OTHER            -> "none"

(* The match of lines 467-483: why the event ends the loop, "none" if it   *)
(* does not.                                                               *)
break_cause(ev) ==
    CASE ev.kind = "Key" ->
            IF ev.code = "c" /\ "CONTROL" \in ev.modifiers THEN "ctrl_c" ELSE "none"
      [] ev.kind = "Err"  -> "stream_error"
      [] ev.kind = "None" -> "stream_end"
      [] OTHER            -> "none"

(***************************************************************************)
(* main                                                                    *)
(***************************************************************************)
(* Lines 437-451: the state when the loop is entered, or the panic of      *)
(* MatrixEngine::new.                                                      *)
Init ==
    \E sz \in Sizes, dens \in Densities, sp \in Speeds :
        /\ width = sz[1]
        /\ height = sz[2]
        /\ density = dens
        /\ speed = sp
        /\ IF create_drops_panics(sz[1], sz[2], dens)
           THEN pc = "panicked" /\ drops = <<>>
           ELSE pc = "poll" /\ drops \in create_drops(sz[1], sz[2], dens)
        /\ current_screen = Screen_new(sz[2], sz[1])
        /\ previous_screen = Screen_new(sz[2], sz[1])
        /\ terminal = term_cleared(sz[2], sz[1])
        /\ now = 0
        /\ last_frame_time = 0
        /\ out = <<>>
        /\ redraw_due = FALSE
        /\ event = NoEvent
        /\ frames = 0
        /\ cleanup_runs = 0

(* Lines 455-462: the size poll and, when the size changed, the resize.    *)
(* size()? returns from main on an error.                                  *)
PollSize ==
    /\ pc = "poll"
    /\ UNCHANGED <<density, speed, last_frame_time, now, frames, cleanup_runs>>
    /\ event' = NoEvent
    /\ \/ /\ pc' = "returned"
          /\ UNCHANGED <<width, height, drops, current_screen, previous_screen,
                         terminal, out, redraw_due>>
       \/ \E sz \in Sizes :
             LET new_width == sz[1]
                 new_height == sz[2]
             IN  IF new_width # width \/ new_height # height
                 THEN /\ current_screen' = Screen_resize(current_screen, new_height, new_width)
                      /\ previous_screen' = Screen_resize(previous_screen, new_height, new_width)
                      /\ terminal' = term_resized(terminal, new_height, new_width)
                      /\ out' = <<>>
                      /\ IF resize_drops_panics(drops, new_width, new_height, density)
                         THEN /\ pc' = "panicked"
                              /\ UNCHANGED <<width, height, drops, redraw_due>>
                         ELSE /\ drops' \in resize_drops(drops, new_width, new_height, density)
                              /\ width' = new_width
                              /\ height' = new_height
                              /\ redraw_due' = TRUE
                              /\ pc' = "select"
                 ELSE /\ pc' = "select"
                      /\ out' = <<>>
                      /\ UNCHANGED <<width, height, drops, current_screen,
                                     previous_screen, terminal, redraw_due>>

(* Mutant of InputEvent: a Resize event makes the handler resize the       *)
(* current Screen.                                                         *)
InputEvent_resizes ==
    /\ pc = "select"
    /\ \E ev \in Events :
          /\ event' = ev
          /\ pc' = IF break_cause(ev) = "none" THEN "poll" ELSE "cleanup"
          /\ current_screen' = IF ev.kind = "Resize"
                                THEN Screen_resize(current_screen, height, width)
                                ELSE current_screen
    /\ UNCHANGED <<width, height, density, speed, drops,
                   previous_screen, last_frame_time, now, terminal, out,
                   redraw_due, frames, cleanup_runs>>

(* Mutant of InputEvent: handling an event re-arms the frame timer.        *)
InputEvent_rearms ==
    /\ pc = "select"
    /\ \E ev \in Events :
          /\ event' = ev
          /\ pc' = IF break_cause(ev) = "none" THEN "poll" ELSE "cleanup"
    /\ last_frame_time' = now
    /\ UNCHANGED <<width, height, density, speed, drops, current_screen,
                   previous_screen, now, terminal, out,
                   redraw_due, frames, cleanup_runs>>

(* Lines 466-484: the input branch of the select.                          *)
InputEvent ==
    /\ pc = "select"
    /\ \E ev \in Events :
          /\ event' = ev
          /\ pc' = IF break_cause(ev) = "none" THEN "poll" ELSE "cleanup"
    /\ UNCHANGED <<width, height, density, speed, drops, current_screen,
                   previous_screen, last_frame_time, now, terminal, out,
                   redraw_due, frames, cleanup_runs>>

(* Mutant of FrameTick: the frame is painted before the Drops are updated. *)
FrameTick_paints_first ==
    /\ pc = "select"
    /\ now >= last_frame_time + FRAME_DURATION
    /\ LET delta_time == now - last_frame_time
           fall_distance == speed * delta_time
       IN  /\ last_frame_time' = now
           /\ UNCHANGED <<width, height, density, speed, now, event, cleanup_runs>>
           /\ \/ /\ update_drops_panics(drops, height, density, fall_distance)
                 /\ pc' = "panicked"
                 /\ UNCHANGED <<drops, current_screen, previous_screen, terminal,
                                out, redraw_due, frames>>
              \/ \E ds \in update_drops(drops, height, density, fall_distance) :
                    /\ drops' = ds
                    /\ IF render_drops_panics(ds, current_screen)
                       THEN /\ pc' = "panicked"
                            /\ UNCHANGED <<current_screen, previous_screen, terminal,
                                           out, redraw_due, frames>>
                       ELSE LET painted == render_drops(drops, current_screen)
                                writes == render_changes(painted, previous_screen)
                            IN  \/ /\ terminal' = term_written(terminal, writes, 1, None)
                                   /\ out' = writes
                                   /\ current_screen' = previous_screen
                                   /\ previous_screen' = painted
                                   /\ redraw_due' = FALSE
                                   /\ frames' = frames + 1
                                   /\ pc' = "poll"
                                \/ \* the flush fails before anything reaches the
                                   \* terminal: `?` returns from main
                                   /\ Len(writes) > 0
                                   /\ current_screen' = painted
                                   /\ pc' = "returned"
                                   /\ UNCHANGED <<previous_screen, terminal, out,
                                                  redraw_due, frames>>

(* Lines 486-496: the timer branch of the select, taken once the deadline  *)
(* last_frame_time + FRAME_DURATION is reached.                            *)
FrameTick ==
    /\ pc = "select"
    /\ now >= last_frame_time + FRAME_DURATION
    /\ LET delta_time == now - last_frame_time
           fall_distance == speed * delta_time
       IN  /\ last_frame_time' = now
           /\ UNCHANGED <<width, height, density, speed, now, event, cleanup_runs>>
           /\ \/ /\ update_drops_panics(drops, height, density, fall_distance)
                 /\ pc' = "panicked"
                 /\ UNCHANGED <<drops, current_screen, previous_screen, terminal,
                                out, redraw_due, frames>>
              \/ \E ds \in update_drops(drops, height, density, fall_distance) :
                    /\ drops' = ds
                    /\ IF render_drops_panics(ds, current_screen)
                       THEN /\ pc' = "panicked"
                            /\ UNCHANGED <<current_screen, previous_screen, terminal,
                                           out, redraw_due, frames>>
                       ELSE LET painted == render_drops(ds, current_screen)
                                writes == render_changes(painted, previous_screen)
                            IN  \/ /\ terminal' = term_written(terminal, writes, 1, None)
                                   /\ out' = writes
                                   /\ current_screen' = previous_screen
                                   /\ previous_screen' = painted
                                   /\ redraw_due' = FALSE
                                   /\ frames' = frames + 1
                                   /\ pc' = "poll"
                                \/ \* the flush fails before anything reaches the
                                   \* terminal: `?` returns from main
                                   /\ Len(writes) > 0
                                   /\ current_screen' = painted
                                   /\ pc' = "returned"
                                   /\ UNCHANGED <<previous_screen, terminal, out,
                                                  redraw_due, frames>>

(* Time passes while main waits in the select.                             *)
Advance ==
    /\ pc = "select"
    /\ now < MaxNow
    /\ \E d \in TimeSteps : now' = now + d
    /\ UNCHANGED <<pc, width, height, density, speed, drops, current_screen,
                   previous_screen, last_frame_time, terminal, out, redraw_due,
                   event, frames, cleanup_runs>>

(* Lines 445-448 and 500-501: the cleanup closure, then main returns.      *)
Cleanup ==
    /\ pc = "cleanup"
    /\ cleanup_runs' = cleanup_runs + 1
    /\ terminal' = term_cleared(terminal.height, terminal.width)
    /\ pc' = "returned"
    /\ event' = NoEvent
    /\ UNCHANGED <<width, height, density, speed, drops, current_screen,
                   previous_screen, last_frame_time, now, out, redraw_due,
                   frames>>

Next == PollSize \/ InputEvent \/ FrameTick \/ Advance \/ Cleanup

Spec == Init /\ [][Next]_vars

(* The timer branch of the select is ready: ENABLED <<FrameTick>>_vars.    *)
TimerDue == pc = "select" /\ now >= last_frame_time + FRAME_DURATION

(* The step is one of FrameTick: of the steps of Next, only those set      *)
(* last_frame_time and leave event alone.                                  *)
TimerFired == last_frame_time' # last_frame_time /\ event' = event

(* The loop goes on to its next iteration, and the select, which polls its *)
(* ready branches in random order, does not pass over the timer branch     *)
(* forever when that branch is ready again and again: strong fairness of   *)
(* FrameTick, SF_vars(FrameTick), written out with TimerDue and TimerFired.*)
LiveSpec ==
    /\ Spec
    /\ WF_vars(PollSize)
    /\ (<>[]~TimerDue) \/ ([]<><<TimerFired>>_vars)

(***************************************************************************)
(* Vocabulary of the properties.                                           *)
(***************************************************************************)
Running == pc \in {"poll", "select"}

(* This step is a frame tick that ran to completion.                       *)
TickDone == frames' = frames + 1

(* This step is the input branch of the select handling an event.          *)
InputHandled == pc = "select" /\ event = NoEvent /\ event' \in Events

(* Ctrl+C, an input-stream error, or the end of the input stream.          *)
IsExitInput(ev) ==
    \/ ev.kind = "Key" /\ ev.code = "c" /\ "CONTROL" \in ev.modifiers
    \/ ev.kind = "Err"
    \/ ev.kind = "None"

Cells(h, w) == (0..(h - 1)) \X (0..(w - 1))                 \* <<row, col>>
WrittenCells(writes) == {<<writes[k].row, writes[k].col>> : k \in DOMAIN writes}

resolved(s, row, col) == unwrap_or(s.colors[row][col], background_rgb)

(* The terminal shows Screen s in every cell in range.                     *)
Shows(t, s) ==
    \A rc \in Cells(s.height, s.width) :
        (rc[1] < t.height /\ rc[2] < t.width) =>
            /\ t.cells[rc[1]][rc[2]].ch = s.chars[rc[1]][rc[2]]
            /\ t.cells[rc[1]][rc[2]].color = resolved(s, rc[1], rc[2])

SameGrids(s, t) ==
    /\ s.height = t.height
    /\ s.width = t.width
    /\ s.chars = t.chars
    /\ s.colors = t.colors

(***************************************************************************)
(* C1.  On every path by which the main loop ends, the terminal            *)
(* restoration sequence has run exactly once when main returns.            *)
(* Refuted: size()? and render_changes(..)? return without it.             *)
(***************************************************************************)
C1_RestoredOnEveryReturn == pc = "returned" => cleanup_runs = 1

(***************************************************************************)
(* C2.  After every completed frame tick the previous Screen (the buffer   *)
(* just swapped out) is what the terminal displays, cell by cell.          *)
(* Refuted: a resize blanks both Screens and leaves the terminal as it is. *)
(***************************************************************************)
C2_PreviousIsDisplayed == [][TickDone => Shows(terminal', previous_screen')]_vars

(***************************************************************************)
(* C3.  The first render_changes pass after a resize writes every cell of  *)
(* the new grid.                                                           *)
(* Refuted: both Screens were resized, so only the painted cells differ.   *)
(***************************************************************************)
C3_FullRedrawAfterResize ==
    [][(TickDone /\ redraw_due) =>
          /\ WrittenCells(out') = Cells(height', width')
          /\ Len(out') = height' * width']_vars

(***************************************************************************)
(* C4.  render_changes(current, previous) writes a cell if and only if it  *)
(* lies outside previous's bounds, or its character differs, or its        *)
(* resolved colour differs from previous's resolved colour there.          *)
(* Refuted: the code compares the unresolved Option colours.               *)
(***************************************************************************)
ChangedAsClaimed(cur, prev, row, col) ==
    \/ row >= prev.height
    \/ col >= prev.width
    \/ cur.chars[row][col] # prev.chars[row][col]
    \/ resolved(cur, row, col) # resolved(prev, row, col)

C4_WritesIffResolvedChange ==
    [][TickDone =>
          \A rc \in Cells(previous_screen'.height, previous_screen'.width) :
              (rc \in WrittenCells(out')) <=>
                  ChangedAsClaimed(previous_screen', previous_screen, rc[1], rc[2])]_vars

(***************************************************************************)
(* C5.  render_changes emits nothing when the current and the previous     *)
(* Screen have the same dimensions and identical grids.                    *)
(***************************************************************************)
C5_NoOutputOnIdenticalGrids ==
    [][(TickDone /\ SameGrids(previous_screen', previous_screen)) => out' = <<>>]_vars

(* A tick has just painted a frame with a glyph in it that equals the      *)
(* frame before, and wrote nothing.                                        *)
C5_Witness ==
    /\ pc = "poll" /\ event = NoEvent /\ frames >= 2
    /\ SameGrids(previous_screen, current_screen)
    /\ \E rc \in Cells(previous_screen.height, previous_screen.width) :
          previous_screen.chars[rc[1]][rc[2]] # " "
    /\ out = <<>>

(***************************************************************************)
(* C6.  Handling an input event leaves last_frame_time, every Drop and     *)
(* both Screens unchanged, and last_frame_time is modified only by the     *)
(* frame-deadline branch, once the deadline is reached.                    *)
(***************************************************************************)
C6_InputKeepsDeadline ==
    [][/\ InputHandled =>
            UNCHANGED <<last_frame_time, drops, current_screen, previous_screen>>
       /\ last_frame_time' # last_frame_time =>
            /\ pc = "select"
            /\ now >= last_frame_time + FRAME_DURATION
            /\ last_frame_time' = now
            /\ event' = event]_vars

(* A non-exit event was handled with the deadline already passed and a     *)
(* painted frame in the Screens: the deadline still stands.                *)
C6_Witness ==
    /\ pc = "poll" /\ event \in Events /\ ~IsExitInput(event)
    /\ frames >= 1
    /\ now >= last_frame_time + FRAME_DURATION
    /\ \E rc \in Cells(previous_screen.height, previous_screen.width) :
          previous_screen.chars[rc[1]][rc[2]] # " "

(***************************************************************************)
(* C7.  Input bursts cannot starve rendering: while the loop runs, once    *)
(* the frame deadline has passed a frame tick eventually runs (or the loop *)
(* ends), even if an input event is handled at every iteration.            *)
(***************************************************************************)
FrameCounts == 0..(MaxNow \div FRAME_DURATION + 2)

C7_TickEventuallyRuns ==
    \A k \in FrameCounts :
        (Running /\ frames = k /\ now >= last_frame_time + FRAME_DURATION)
            ~> (frames > k \/ ~Running)

(* The first tick ran a whole frame late.                                  *)
C7_Witness ==
    /\ pc = "poll" /\ event = NoEvent /\ frames = 1
    /\ last_frame_time >= 2 * FRAME_DURATION

(***************************************************************************)
(* C8.  As stated: the loop terminates only when the processed input is    *)
(* Ctrl+C, a stream error or the end of the stream.                        *)
(* Refuted: a failing size poll ends it with no input processed.           *)
(***************************************************************************)
C8_EndsOnlyOnExitInput ==
    [][(Running /\ ~Running') => (InputHandled /\ IsExitInput(event'))]_vars

(***************************************************************************)
(* C8, amended.  A processed input ends the loop if and only if it is      *)
(* Ctrl+C, a stream error or the end of the stream; every other input      *)
(* keeps the loop running; the loop reaches its exit (the cleanup) only    *)
(* through such an input; and once the loop has ended no frame tick runs.  *)
(***************************************************************************)
C8_InputEndsLoopIffExitInput ==
    [][/\ InputHandled =>
            /\ IsExitInput(event') => pc' = "cleanup"
            /\ ~IsExitInput(event') => pc' = "poll"
       /\ pc' = "cleanup" /\ pc # "cleanup" =>
            (InputHandled /\ IsExitInput(event'))
       /\ ~Running =>
            UNCHANGED <<frames, last_frame_time, drops, current_screen,
                        previous_screen, out>>]_vars

(* The loop has ended on Ctrl+C after a frame was painted.                 *)
C8_Witness ==
    /\ pc = "cleanup" /\ frames >= 1
    /\ event = [kind |-> "Key", code |-> "c", modifiers |-> {"CONTROL"}]

(***************************************************************************)
(* C9.  After engine construction and after every resize_drops call the    *)
(* number of Drops is max(width, round(width * density)); width 80 gives   *)
(* 80 Drops with density 1.0 and 160 with density 2.0.                     *)
(***************************************************************************)
RoundTenths(n) == IF n >= 0 THEN (n + 5) \div 10 ELSE 0 - ((5 - n) \div 10)

C9_DropCount ==
    /\ pc # "panicked" => Len(drops) = Max(width, RoundTenths(width * density))
    /\ total_drops(80, 10) = 80
    /\ total_drops(80, 20) = 160

(* A resize to a width whose product with the density is not whole.        *)
C9_Witness ==
    /\ pc = "select" /\ redraw_due /\ frames >= 1
    /\ width = 2 /\ density = 13 /\ Len(drops) = 3

(***************************************************************************)
(* C10.  resize_drops from N Drops to M: if M > N the first N keep their   *)
(* state and order and M - N Active Drops are appended; if M < N the       *)
(* result is the first M, unchanged; if M = N nothing changes.             *)
(***************************************************************************)
C10_ResizeKeepsPrefix ==
    [][(pc = "poll" /\ pc' = "select" /\ (width' # width \/ height' # height)) =>
          LET N == Len(drops)
              M == Len(drops')
          IN  /\ M = Max(width', RoundTenths(width' * density))
              /\ M > N => /\ SubSeq(drops', 1, N) = drops
                          /\ \A i \in (N + 1)..M : drops'[i].active
              /\ M < N => drops' = SubSeq(drops, 1, M)
              /\ M = N => drops' = drops]_vars

(* After a frame, a resize grew the collection: the Drop that fell is      *)
(* followed by two new ones.                                               *)
C10_Witness ==
    /\ pc = "select" /\ redraw_due /\ frames >= 1
    /\ Len(drops) = 3
    /\ drops[1].pos > 1000
    /\ drops[2].active /\ drops[2].pos < 1000
    /\ drops[3].active /\ drops[3].pos < 1000

(***************************************************************************)
(* Vocabulary of the claims about the Drops.                               *)
(***************************************************************************)
(* This step is a frame tick whose update_drops call returned.             *)
UpdateReturned == TimerFired /\ pc' # "panicked"

(* The fall_distance of the tick that fires now.                           *)
TickFall == speed * (now - last_frame_time)

(* The Drop's trail has fully left the bottom of a screen of height h.     *)
BelowBottom(d, h) == d.pos - d.length * 1000 > h * 1000

(***************************************************************************)
(* C11.  In Drop::update an Active Drop is paused or respawned exactly     *)
(* when, after adding fall_distance, pos - length > screen_height; when    *)
(* pos - length <= screen_height it stays Active with the same length and  *)
(* char and only its pos moved.                                            *)
(***************************************************************************)
C11_LeavesExactlyBelowBottom ==
    [][UpdateReturned =>
          \A i \in DOMAIN drops :
              drops[i].active =>
                  LET moved == [drops[i] EXCEPT !.pos = @ + TickFall]
                  IN  IF BelowBottom(moved, height)
                      THEN \/ drops'[i] = [moved EXCEPT !.active = FALSE]
                           \/ drops'[i] \in new_random(height)
                      ELSE drops'[i] = moved]_vars

(* After two ticks one Drop below the bottom is paused where it was moved  *)
(* to, and another one was respawned.                                      *)
C11_Witness ==
    /\ pc = "poll" /\ event = NoEvent /\ frames = 2
    /\ \E i, j \in DOMAIN drops :
          /\ ~drops[i].active /\ BelowBottom(drops[i], height)
          /\ drops[j].active /\ drops[j] \in new_random(height)

(***************************************************************************)
(* C12.  Drop::update with fall_distance = 0 on an Active Drop leaves its  *)
(* pos unchanged, for every Drop the running program can hold, the Drops   *)
(* that are Active right after a resize reduced the height included.       *)
(* Refuted: such a Drop can be below the new bottom, and is then respawned.*)
(***************************************************************************)
C12_ZeroFallKeepsPos ==
    \A i \in DOMAIN drops :
        drops[i].active =>
            \A u \in update(drops[i], height, density, 0) : u.pos = drops[i].pos

(***************************************************************************)
(* C13.  update_drops, render_drops, render_changes, Screen::resize and    *)
(* resize_drops never abort, for any size the size poll can report (a      *)
(* width or height of 0 included) and any reachable Drops and Screens.     *)
(* Refuted: with height 0, new_random draws from the empty range 0.0..0.0. *)
(***************************************************************************)
C13_OperationsNeverAbort == [][pc # "panicked" => pc' # "panicked"]_vars

(***************************************************************************)
(* C14.  Whenever a frame tick can run, the current and the previous       *)
(* Screen both have exactly the dimensions the size poll returned last,    *)
(* their grids have that many rows and columns, and the tracked width and  *)
(* height equal that size.                                                 *)
(***************************************************************************)
HasSize(s, h, w) ==
    /\ s.height = h
    /\ s.width = w
    /\ DOMAIN s.chars = 0..(h - 1)
    /\ DOMAIN s.colors = 0..(h - 1)
    /\ \A r \in 0..(h - 1) :
          DOMAIN s.chars[r] = 0..(w - 1) /\ DOMAIN s.colors[r] = 0..(w - 1)

C14_ScreensMatchPolledSize ==
    pc = "select" =>
        /\ HasSize(current_screen, terminal.height, terminal.width)
        /\ HasSize(previous_screen, terminal.height, terminal.width)
        /\ height = terminal.height
        /\ width = terminal.width

(* A frame was painted, then the size poll returned a size that is not     *)
(* square and differs from the one before.                                 *)
C14_Witness ==
    /\ pc = "select" /\ redraw_due /\ frames >= 1
    /\ terminal.height = 1 /\ terminal.width = 2
    /\ HasSize(current_screen, 1, 2)

Covering(ds, w, row, col) ==
    {i \in DOMAIN ds :
        /\ ds[i].active
        /\ (i - 1) % w = col
        /\ RoundMilli(ds[i].pos - ds[i].length * 1000) <= row
        /\ row <= RoundMilli(ds[i].pos)}

Highest(S) == CHOOSE i \in S : \A j \in S : j <= i

Deadline(last) == last + FRAME_DURATION

C17_DeadlineFromPreviousDeadline ==
    [][TickDone =>
          /\ Deadline(last_frame_time') = Deadline(last_frame_time) + FRAME_DURATION
          /\ now <= frames' * FRAME_DURATION + FRAME_DURATION]_vars

(***************************************************************************)
(* C18.  Drop::update on an Inactive Drop either leaves all of its fields  *)
(* unchanged or replaces it by a freshly initialised Active Drop: an       *)
(* Inactive Drop never moves, and it becomes Active only through           *)
(* new_random.                                                             *)
(***************************************************************************)
C18_InactiveStaysOrRespawns ==
    [][UpdateReturned =>
          \A i \in DOMAIN drops :
              ~drops[i].active =>
                  \/ drops'[i] = drops[i]
                  \/ drops'[i] \in new_random(height)]_vars

(* A Drop paused by the first tick is where it was after the second one,   *)
(* which moved another Drop and paused that one.                           *)
C18_Witness ==
    /\ pc = "poll" /\ event = NoEvent /\ frames = 2
    /\ last_frame_time = 2 * FRAME_DURATION
    /\ \E i, j \in DOMAIN drops :
          /\ ~drops[i].active
          /\ drops[i].pos = 400 + speed * FRAME_DURATION
          /\ ~drops[j].active
          /\ drops[j].pos = speed * 2 * FRAME_DURATION - 100

(***************************************************************************)
(* C20.  Immediately after update_drops(screen_height, ..) returns, every  *)
(* Active Drop satisfies pos - length <= screen_height, for positive       *)
(* screen heights and any non-negative fall_distance.                      *)
(***************************************************************************)
C20_NoActiveDropBelowBottom ==
    [][(UpdateReturned /\ height > 0 /\ TickFall >= 0) =>
          \A i \in DOMAIN drops' :
              drops'[i].active => ~BelowBottom(drops'[i], height)]_vars

(* The tick found an Active Drop below the bottom, left there by a resize  *)
(* that reduced the height, and has paused or respawned it; another Drop   *)
(* is still falling, its trail not yet past the bottom.                    *)
C20_Witness ==
    /\ pc = "poll" /\ event = NoEvent /\ frames = 2 /\ height = 1
    /\ \E i, j \in DOMAIN drops :
          /\ ~drops[i].active
          /\ drops[i].pos = 400 + speed * 2 * FRAME_DURATION
          /\ drops[j].active
          /\ drops[j].pos > height * 1000
          /\ ~BelowBottom(drops[j], height)

(***************************************************************************)
(* The Drops under frame ticks that keep occurring.  A tick changes the    *)
(* Drops through update_drops alone, and the Drops depend on nothing else  *)
(* that a tick changes; here each tick comes FRAME_DURATION after the one  *)
(* before, the terminal keeps its size, and the clock is left out.         *)
(***************************************************************************)
UpdateTick ==
    /\ pc = "poll"
    /\ ~update_drops_panics(drops, height, density, speed * FRAME_DURATION)
    /\ drops' \in update_drops(drops, height, density, speed * FRAME_DURATION)
    /\ UNCHANGED <<pc, width, height, density, speed, current_screen,
                   previous_screen, last_frame_time, now, terminal, out,
                   redraw_due, event, frames, cleanup_runs>>

DropIndices == 1..total_drops(MaxWidth, 13)

(* The draw gen_range(0.0..1.0) < activation_chance of line 252 can        *)
(* succeed for Drop i, and it does in this step.                           *)
CanReactivate(i) ==
    /\ pc = "poll"
    /\ i \in DOMAIN drops
    /\ ~drops[i].active
    /\ activation_chance(density) > 0
    /\ new_random(height) # {}

Reactivates(i) == i \in DOMAIN drops /\ ~drops[i].active /\ drops'[i].active

(* The runs with the speed at which a Drop passes the screen within a few  *)
(* ticks.                                                                  *)
DropLifeInit == Init /\ speed = 270

(* Ticks keep occurring, and a draw that can succeed at tick after tick    *)
(* does not fail forever (strong fairness of the reactivation of each      *)
(* Drop).                                                                  *)
DropLifeSpec ==
    /\ DropLifeInit
    /\ [][UpdateTick]_vars
    /\ WF_vars(UpdateTick)
    /\ \A i \in DropIndices :
          (<>[]~CanReactivate(i)) \/ ([]<><<Reactivates(i)>>_vars)

(***************************************************************************)
(* C19.  Every Drop that becomes Inactive is eventually reactivated if     *)
(* frame ticks keep occurring, for every density the program accepts       *)
(* (density 0 included) and under fairness of the per-tick reactivation    *)
(* draw.                                                                   *)
(* Refuted: with density 0 the activation chance 0.005 * density is 0.     *)
(***************************************************************************)
C19_InactiveEventuallyActive ==
    \A i \in DropIndices :
        (i \in DOMAIN drops /\ ~drops[i].active) ~> (i \in DOMAIN drops /\ drops[i].active)

(* The same for the positive densities only.                               *)
C19_PositiveDensity ==
    \A i \in DropIndices :
        (density > 0 /\ i \in DOMAIN drops /\ ~drops[i].active)
            ~> (i \in DOMAIN drops /\ drops[i].active)
=============================================================================
